---- MODULE Spec2Model ----
(***************************************************************************)
(* Model of the Arcas OnlineEDA MCP server: the BrowserManager session     *)
(* (src/utils/browser.ts), the AbstractTool dispatch template and the      *)
(* page-driving tools (src/tools/*.ts), and the request handlers and       *)
(* start-up / shutdown wiring of src/index.ts.                             *)
(*                                                                         *)
(* Node runs one continuation at a time: a model step is the resolution of *)
(* one awaited promise together with the synchronous code (and the         *)
(* promise-continuation chain) that runs until the next await on an        *)
(* external event.  Between two such steps of one handler, steps of other  *)
(* handlers may run.                                                       *)
(***************************************************************************)
EXTENDS Integers, Sequences, FiniteSets, TLC

\* ---- bounds of the model ----
\* number of tool-call requests that can be in flight at the same time
MaxCalls == 2
\* number of SIGINT deliveries handled in one run of the process
MaxSigints == 1

Calls == 1..MaxCalls
Sigs == 1..MaxSigints

VARIABLES
    browser,        \* SessionState.browser is set
    page,           \* SessionState.page is set
    isLoggedIn,     \* SessionState.isLoggedIn
    liveBrowsers,   \* browser processes launched by puppeteer and not yet closed
    launches,       \* number of puppeteer.launch calls made so far
    envCreds,       \* ONLINEEDA_USERNAME and ONLINEEDA_PASSWORD are both set
    startPc,        \* position of ArcasOnlineEDAMCPServer.start
    initFailed,     \* initialize or navigateToOnlineEDA threw into start()'s catch
    alive,          \* the process has not exited
    sigPc,          \* position of each SIGINT handler invocation
    workload,       \* the requests the client sends in this run of the server
    resultsPages,   \* the documents the site can show on a project's results view
    pc,             \* position of each tool call in flight
    req,            \* the request of each tool call in flight: name and arguments
    hist,           \* per call in flight: what the call has done so far
    out             \* the answer the last step handed to the transport, if any

vars == <<browser, page, isLoggedIn, liveBrowsers, launches, envCreds, startPc,
          initFailed, alive, sigPc, workload, resultsPages, pc, req, hist, out>>

sessionVars == <<browser, page, isLoggedIn, liveBrowsers, launches>>
serverVars == <<envCreds, startPc, initFailed, alive, sigPc, workload, resultsPages>>
callVars == <<pc, req, hist>>

\* a value for "no value yet"
None == [none |-> TRUE]

\* ---- ToolResult (src/types/index.ts) and thrown values ----
\* a failure object literal {success: false, error: msg}: it has no data field
Fail(msg) == [success |-> FALSE, error |-> msg]
\* a success object literal {success: true, data: d}: it has no error field
Ok(d) == [success |-> TRUE, data |-> d]
\* an Error instance with its message
Err(msg) == [isError |-> TRUE, zod |-> FALSE, message |-> msg]
\* a ZodError with the messages of its issues
ZodErr(issues) == [isError |-> TRUE, zod |-> TRUE, message |-> "zod", issues |-> issues]
\* validateAndExecute ended by an exception instead of a ToolResult
Raised(e) == [raised |-> e]

\* `error instanceof Error ? error.message : fallback`
ErrorMessage(e, fallback) == IF e.isError THEN e.message ELSE fallback

\* Array.prototype.join(sep) over a sequence of strings
RECURSIVE Join(_, _)
Join(msgs, sep) ==
    IF Len(msgs) = 0 THEN ""
    ELSE IF Len(msgs) = 1 THEN Head(msgs)
    ELSE Head(msgs) \o sep \o Join(Tail(msgs), sep)

\* ---- JavaScript strings and numbers, as the tools use them ----
CharAt(s, i) == SubSeq(s, i, i)

UpperCaseLetters == "ABCDEFGHIJKLMNOPQRSTUVWXYZ"
LowerCaseLetters == "abcdefghijklmnopqrstuvwxyz"
Digits == "0123456789"

LowerChar(ch) ==
    IF \E i \in 1..Len(UpperCaseLetters) : CharAt(UpperCaseLetters, i) = ch
    THEN CharAt(LowerCaseLetters,
                CHOOSE i \in 1..Len(UpperCaseLetters) : CharAt(UpperCaseLetters, i) = ch)
    ELSE ch

\* String.prototype.toLowerCase
RECURSIVE toLowerCase(_)
toLowerCase(s) ==
    IF Len(s) = 0 THEN "" ELSE LowerChar(Head(s)) \o toLowerCase(Tail(s))

\* String.prototype.includes: k occurs in s as a substring
includes(s, k) ==
    \E i \in 0..(Len(s) - Len(k)) : SubSeq(s, i + 1, i + Len(k)) = k

\* String.prototype.split(' '): the pieces between single space characters, the
\* empty pieces included; cur is the piece being read, acc the pieces read
RECURSIVE SplitAcc(_, _, _)
SplitAcc(s, cur, acc) ==
    IF Len(s) = 0 THEN Append(acc, cur)
    ELSE IF Head(s) = " " THEN SplitAcc(Tail(s), "", Append(acc, cur))
    ELSE SplitAcc(Tail(s), cur \o Head(s), acc)

split(s) == SplitAcc(s, "", <<>>)

\* String.prototype.trim, for texts whose only white space is the space character
RECURSIVE TrimStart(_)
TrimStart(s) ==
    IF Len(s) > 0 /\ Head(s) = " " THEN TrimStart(Tail(s)) ELSE s

RECURSIVE TrimEnd(_)
TrimEnd(s) ==
    IF Len(s) > 0 /\ CharAt(s, Len(s)) = " " THEN TrimEnd(SubSeq(s, 1, Len(s) - 1)) ELSE s

Trim(s) == TrimEnd(TrimStart(s))

\* a JavaScript number: NaN, or an integer value
NaN == [nan |-> TRUE]
Num(n) == [nan |-> FALSE, val |-> n]

\* truthiness of a number that is not NaN, as `if (n)` and `n || d` test it
Truthy(n) == n # 0

\* Number.prototype.toString of an integer
RECURSIVE NatToString(_)
NatToString(n) ==
    IF n < 10 THEN CharAt(Digits, n + 1)
    ELSE NatToString(n \div 10) \o CharAt(Digits, (n % 10) + 1)

NumberToString(n) == IF n < 0 THEN "-" \o NatToString(-n) ELSE NatToString(n)

IsDigit(ch) == \E i \in 1..Len(Digits) : CharAt(Digits, i) = ch
DigitValue(ch) == (CHOOSE i \in 1..Len(Digits) : CharAt(Digits, i) = ch) - 1

\* the number of decimal digits s starts with
RECURSIVE LeadingDigits(_)
LeadingDigits(s) ==
    IF Len(s) > 0 /\ IsDigit(Head(s)) THEN 1 + LeadingDigits(Tail(s)) ELSE 0

\* the value of a string of decimal digits
RECURSIVE DigitsValue(_)
DigitsValue(s) ==
    IF Len(s) = 0 THEN 0
    ELSE 10 * DigitsValue(SubSeq(s, 1, Len(s) - 1)) + DigitValue(CharAt(s, Len(s)))

\* parseInt(s) with no radix, for texts that do not start with 0x: leading white
\* space is skipped, a sign is read, then the longest run of decimal digits; NaN
\* when there is no digit at that place
parseInt(s) ==
    LET t == TrimStart(s)
        signed == Len(t) > 0 /\ Head(t) \in {"-", "+"}
        u == IF signed THEN Tail(t) ELSE t
        n == LeadingDigits(u)
        v == DigitsValue(SubSeq(u, 1, n))
    IN  IF n = 0 THEN NaN
        ELSE IF signed /\ Head(t) = "-" THEN Num(-v) ELSE Num(v)

\* what puppeteer operations reject with: an Error with a message, possibly empty
PageThrowables == {Err("timeout"), Err("")}

\* ---- the registered tools (index.ts setupTools) ----
NavigateName == "arcas_onlineeda_navigate"
ProjectName == "arcas_onlineeda_project"
UploadName == "arcas_onlineeda_upload_file"
RunName == "arcas_onlineeda_run_verification"
NLName == "arcas_onlineeda_natural_language"
ToolNames == {NavigateName, ProjectName, UploadName, RunName, NLName}
PageToolNames == {NavigateName, ProjectName, UploadName, RunName}

\* ---- requests: tool name and arguments ----
\* issues: the messages of the ZodError schema.parse throws on the arguments
\* (empty when the arguments are valid); action: the action argument of the
\* navigate and project tools; complete: the fields the project action needs are
\* given; fileExists: the upload's local path resolves to an accessible file;
\* verificationType and options: the arguments of run verification; query: the
\* query of the natural-language tool and currentProject the current project of
\* its context ("" when there is none); projectName, projectType, projectId: the
\* optional arguments of the project tool ("" when the argument is not given: the
\* code tests them with `!`, which is true of undefined and of ""); uri: the uri
\* of a resource read ("" for a tool call).  options is a record of the option fields
\* the caller supplied: the code reads it through `if (params.options)` and
\* `params.options?.`, which make no difference between no options object and an
\* options object with no field, so <<>> stands for both.
NoOptions == <<>>

Request(n, iss, a, cpl, fe) ==
    [name |-> n, issues |-> iss, action |-> a, complete |-> cpl, fileExists |-> fe,
     verificationType |-> "formal", options |-> NoOptions, query |-> "",
     currentProject |-> "", projectName |-> "", projectType |-> "", projectId |-> "",
     uri |-> ""]

UnknownRequest == Request("no_such_tool", <<>>, "-", TRUE, TRUE)
InvalidRequests ==
    {Request(n, <<"Required">>, "-", TRUE, TRUE) : n \in ToolNames}
    \cup {Request(RunName, <<"Required", "Invalid enum value">>, "-", TRUE, TRUE)}
NavigateRequest == Request(NavigateName, <<>>, "projects", TRUE, TRUE)
ListRequest == Request(ProjectName, <<>>, "list", TRUE, TRUE)
CreateIncompleteRequest == Request(ProjectName, <<>>, "create", FALSE, TRUE)
RunRequest == Request(RunName, <<>>, "-", TRUE, TRUE)
\* a query that no example and no category keyword matches
NLRequest == [Request(NLName, <<>>, "-", TRUE, TRUE) EXCEPT !.query = "Thanks a lot"]

\* the natural-language tool called with the query q
NLWith(q) == [NLRequest EXCEPT !.query = q]

\* the natural-language tool called with the query q and a context whose
\* currentProject is p
NLWithContext(q, p) == [NLWith(q) EXCEPT !.currentProject = p]

\* the queries of the natural-language calls: texts of the corpus, parts of them,
\* words repeated, two spaces between words, other letter case, no corpus word,
\* a text as near to one example as to another, texts with the keywords of
\* several categories or of several groups of a category, or of no group, or
\* of the results category alone
Queries ==
    {"I want to create a new formal verification project for my CPU design",
     "Let's start a power analysis project for the GPU controller",
     "Set up equivalence checking between RTL and gate-level netlist",
     "Check if my RISC-V core meets all safety properties",
     "Verify that the optimized design is functionally equivalent to the original",
     "Analyze power consumption during different operating modes",
     "Find security vulnerabilities in my crypto module",
     "Upload my Verilog files for the memory controller",
     "Add the SystemVerilog testbench to the project",
     "Import SDC timing constraints",
     "Show me all my verification projects",
     "Go to the documentation",
     "I need to verify my AES encryption module meets FIPS standards",
     "Compare power consumption before and after optimization",
     "go to", "go to the", "GO TO THE DOCUMENTATION", "go  to the documentation",
     "go go go", "the the the the", "go to the documentation now please thanks",
     "import sdc", "import sdc timing", "Import SDC timing constraints file",
     "show me all my projects", "upload verilog", "upload my verilog files",
     "find security vulnerabilities", "find security vulnerabilities in my",
     "power consumption", "Help me get started with power analysis",
     "show results", "what is this", "Thanks a lot", "",
     "power consumption during different before and",
     "upload verilog testbench", "upload systemverilog", "load data",
     "run it", "start analysis", "status report"}

\* the project tool called with the action a and the optional arguments pn, pt
\* and pid
ProjectWith(a, pn, pt, pid) ==
    [Request(ProjectName, <<>>, a,
             IF a = "create" THEN pn # "" /\ pt # ""
             ELSE IF a = "list" THEN TRUE ELSE pid # "", TRUE)
     EXCEPT !.projectName = pn, !.projectType = pt, !.projectId = pid]

ProjectActions == {"create", "open", "list", "delete"}

\* the calls of the project tool: each action with each of its optional
\* arguments given or not
ProjectRequests ==
    {ProjectWith(a, pn, pt, pid) :
        a \in ProjectActions, pn \in {"", "alu"}, pt \in {"", "formal"},
        pid \in {"", "42"}}

\* the calls of the natural-language tool: each query without a context, and a
\* query of each kind of answer with a current project in the context
NLRequests ==
    {NLWith(q) : q \in Queries}
    \cup {NLWithContext(q, "42") :
            q \in {"status report", "Go to the documentation", "go to",
                   "what is this", "Thanks a lot"}}

\* the resources setupResources registers
ResourceUris ==
    {"arcas://projects", "arcas://verification-results", "arcas://platform-status",
     "arcas://documentation"}

\* the resource reads: each registered uri and one that is not registered.  The
\* read of arcas://projects calls the project tool with {action: 'list'}.
ReadRequests == {[ListRequest EXCEPT !.uri = u] : u \in ResourceUris \cup {"arcas://nothing"}}

\* run verification with the verification type vt and the options o
RunWith(vt, o) == [RunRequest EXCEPT !.verificationType = vt, !.options = o]

\* option values z.number() accepts, and lists of property names
OptionNumbers == {0, 1, 600}
PropertyLists == {<<"safety">>, <<>>}

\* the options objects of the run verification calls
RunOptions ==
    {NoOptions}
    \cup {[timeout |-> t] : t \in OptionNumbers}
    \cup {[depth |-> d] : d \in OptionNumbers}
    \cup {[properties |-> p] : p \in PropertyLists}
    \cup {[timeout |-> 600, depth |-> 20, properties |-> <<"safety">>],
          [timeout |-> 1, depth |-> 0]}

RunRequests ==
    {RunWith("formal", o) : o \in RunOptions} \cup {RunWith("power", [timeout |-> 600])}

\* The client's workloads.  The page tools touch the session only through
\* ensureLoggedIn, whose code is the same for all of them, so a run draws its
\* page-tool calls from one tool; the calls that never reach the page (unknown
\* name, invalid arguments, the natural-language tool) are sent together with
\* navigate calls.
Workloads ==
    {{NavigateRequest, UnknownRequest, NLRequest} \cup InvalidRequests,
     {ListRequest, CreateIncompleteRequest},
     {Request(UploadName, <<>>, "-", TRUE, TRUE)},
     {Request(UploadName, <<>>, "-", TRUE, FALSE)},
     {RunRequest}}

Requests == UNION Workloads

\* ---- per-call history ----
\* executed: the tool's execute handler was entered; pageOps: a puppeteer page
\* operation was issued (by login or by the tool body); gotos: the tool body
\* issued page.goto; caught: the catch block that turned the call's exception
\* into a result; entered: what the call has put into the page's form, in order;
\* waits: the time limits in milliseconds of the waits for an indicator the call
\* has started, in order; document: the document extractVerificationResults read;
\* scores: the scores findBestExample computed for the examples.
NoHist ==
    [executed |-> FALSE, pageOps |-> FALSE, gotos |-> FALSE, caught |-> "none",
     entered |-> <<>>, waits |-> <<>>, document |-> None, scores |-> <<>>]

\* ---- tool bodies: the awaited operations of each execute, in order ----
NavigateSteps == <<"nav_goto", "nav_waitForTimeout">>
ListSteps == <<"list_goto", "list_evaluate">>
OpenSteps == <<"open_goto">>
CreateSteps ==
    <<"create_goto", "create_waitForSelector", "create_type", "create_select",
      "create_submit">>
DeleteSteps == <<"delete_goto", "delete_click", "delete_waitForSelector", "delete_confirm">>
UploadSteps == <<"up_access", "up_goto", "up_query", "up_uploadFile", "up_waitForSelector">>
RunSteps == <<"rv_goto", "rv_select", "rv_start", "rv_waitComplete", "rv_evaluate">>

\* the option field f was supplied
Supplied(r, f) == f \in DOMAIN r.options

\* `if (params.options.timeout)`, `if (params.options.depth)`: the option is typed
\* into the form when it was supplied and is truthy
TypesOption(r, f) == Supplied(r, f) /\ Truthy(r.options[f])

\* mutation of RunStepsFor: the results are extracted right after the trigger,
\* without the wait for the completion indicator
RunStepsForNoCompleteWait(r) ==
    <<"rv_goto", "rv_select">>
    \o (IF TypesOption(r, "timeout") THEN <<"rv_type_timeout">> ELSE <<>>)
    \o (IF TypesOption(r, "depth") THEN <<"rv_type_depth">> ELSE <<>>)
    \o <<"rv_start", "rv_evaluate">>

\* the awaited operations of RunVerificationTool.execute for the request r
RunStepsFor(r) ==
    <<"rv_goto", "rv_select">>
    \o (IF TypesOption(r, "timeout") THEN <<"rv_type_timeout">> ELSE <<>>)
    \o (IF TypesOption(r, "depth") THEN <<"rv_type_depth">> ELSE <<>>)
    \o <<"rv_start", "rv_waitComplete", "rv_evaluate">>

\* the time limit of the wait for the running indicator, in milliseconds
RunningWaitMs == 5000
\* the seconds run verification waits for completion when no timeout is given
DefaultTimeoutSeconds == 300

\* `(params.options?.timeout || 300) * 1000`
WaitCompleteTimeoutMs(r) ==
    (IF Supplied(r, "timeout") /\ Truthy(r.options.timeout)
     THEN r.options.timeout ELSE DefaultTimeoutSeconds) * 1000

Steps(r) ==
    CASE r.name = NavigateName -> NavigateSteps
      [] r.name = ProjectName /\ r.action = "list" -> ListSteps
      [] r.name = ProjectName /\ r.action = "open" -> OpenSteps
      [] r.name = ProjectName /\ r.action = "create" -> CreateSteps
      [] r.name = ProjectName /\ r.action = "delete" -> DeleteSteps
      [] r.name = UploadName -> UploadSteps
      [] r.name = RunName -> RunStepsFor(r)
      [] OTHER -> <<>>

BodyLabels ==
    {NavigateSteps[i] : i \in DOMAIN NavigateSteps}
    \cup {ListSteps[i] : i \in DOMAIN ListSteps}
    \cup {OpenSteps[i] : i \in DOMAIN OpenSteps}
    \cup {CreateSteps[i] : i \in DOMAIN CreateSteps}
    \cup {DeleteSteps[i] : i \in DOMAIN DeleteSteps}
    \cup {UploadSteps[i] : i \in DOMAIN UploadSteps}
    \cup {RunSteps[i] : i \in DOMAIN RunSteps}
    \cup {"rv_type_timeout", "rv_type_depth"}

GotoLabels ==
    {"nav_goto", "list_goto", "open_goto", "create_goto", "delete_goto", "up_goto",
     "rv_goto"}

LoginLabels ==
    {"login_check", "login_waitForSelector", "login_type_user", "login_type_pass",
     "login_submit", "login_verify"}

\* position of a label in a step sequence
IndexOf(seq, l) == CHOOSE i \in DOMAIN seq : seq[i] = l

\* the prefix each tool's own catch block puts before the message
CatchPrefix(r) ==
    CASE r.name = NavigateName -> "Navigation failed: "
      [] r.name = ProjectName -> "Project operation failed: "
      [] r.name = UploadName -> "File upload failed: "
      [] r.name = RunName -> "Verification failed: "
      [] OTHER -> "Natural language processing failed: "

\* the data of the success result each tool returns after its last operation
SuccessData(r) ==
    CASE r.name = NavigateName -> [action |-> r.action, currentUrl |-> "url"]
      [] r.name = ProjectName /\ r.action = "list" -> [projects |-> "projects", count |-> "n"]
      [] r.name = ProjectName /\ r.action = "create" ->
             [projectName |-> r.projectName, projectType |-> r.projectType,
              message |-> "Project created successfully"]
      [] r.name = ProjectName /\ r.action = "delete" ->
             [projectId |-> r.projectId, message |-> "Project deleted successfully"]
      [] r.name = ProjectName -> [projectId |-> "id", currentUrl |-> "url"]
      [] r.name = UploadName -> [projectId |-> "id", message |-> "File uploaded successfully"]
      [] OTHER -> [projectId |-> "id", results |-> "results"]

\* ---- RunVerificationTool.extractVerificationResults ----
\* A results document is what the selectors of the extraction can see of the page:
\* passedMarker: an element matches '.verification-passed, .status-passed';
\* items: the elements matching '.violation-item, .error-item', in document order,
\* each a record of the text content of the children it has (type, message,
\* location, severity); stats: the text content of the statistic elements the
\* page has (totalChecks, passed, failed, warnings).
Document(pm, its, st) == [passedMarker |-> pm, items |-> its, stats |-> st]

\* a page with no pass marker, no violation entry and no statistic element
EmptyDocument == Document(FALSE, <<>>, <<>>)

\* `el.querySelector(sel)?.textContent?.trim() || dflt`
TrimmedOr(el, f, dflt) ==
    IF f \in DOMAIN el /\ Trim(el[f]) # "" THEN Trim(el[f]) ELSE dflt

\* the object the map callback makes of one violation element; location is
\* undefined, and so absent from the serialized result, when the element has none
Violation(el) ==
    LET t == TrimmedOr(el, "type", "unknown")
        m == TrimmedOr(el, "message", "")
        sv == TrimmedOr(el, "severity", "error")
    IN  IF "location" \in DOMAIN el
        THEN [type |-> t, message |-> m, location |-> Trim(el.location), severity |-> sv]
        ELSE [type |-> t, message |-> m, severity |-> sv]

\* mutation of Statistic: the text is parsed without the '0' default
StatisticNoDefault(st, f) ==
    IF f \in DOMAIN st THEN parseInt(st[f]) ELSE NaN

\* `parseInt(document.querySelector(sel)?.textContent || '0')`
Statistic(st, f) ==
    parseInt(IF f \in DOMAIN st /\ st[f] # "" THEN st[f] ELSE "0")

extractVerificationResults(d) ==
    [passed |-> d.passedMarker,
     violations |-> [i \in DOMAIN d.items |-> Violation(d.items[i])],
     statistics |-> [totalChecks |-> Statistic(d.stats, "totalChecks"),
                     passed |-> Statistic(d.stats, "passed"),
                     failed |-> Statistic(d.stats, "failed"),
                     warnings |-> Statistic(d.stats, "warnings")]]

\* the data of run verification's success result
RunData(r, results) ==
    [projectId |-> "id", verificationType |-> r.verificationType, results |-> results]

\* texts a statistic element can carry
StatTexts == {"12", "0", "", "n/a", "-3", " 7", "3 of 5", "passed: 4"}

\* violation elements: complete, without children, with blank children, with a
\* severity word outside the three of VerificationResult
ViolationElements ==
    {[type |-> "assertion", message |-> "p1 fails", location |-> "top.v:3",
      severity |-> "warning"],
     <<>>,
     [type |-> "  ", message |-> " m ", location |-> ""],
     [severity |-> " info "],
     [type |-> "deadlock", severity |-> "critical"]}

\* the results documents of the model
Documents ==
    {Document(pm, <<>>, st) :
        pm \in BOOLEAN,
        st \in {<<>>} \cup {[totalChecks |-> t] : t \in StatTexts}
                  \cup {[warnings |-> t] : t \in StatTexts}
                  \cup {[totalChecks |-> "12", passed |-> "10", failed |-> "2",
                         warnings |-> "0"]}}
    \cup {Document(pm, <<el>>, <<>>) : pm \in BOOLEAN, el \in ViolationElements}
    \cup {Document(FALSE,
                   <<[type |-> "assertion", message |-> "p1 fails", severity |-> "error"],
                     [message |-> "p2 fails"]>>,
                   [totalChecks |-> "2", failed |-> "2"])}

\* ---- the CallToolRequest handler's answer to the transport (index.ts) ----
\* `JSON.stringify(result.data, null, 2)`: the text that serializes d, kept as
\* the value it was made from under a tag that tells it from any error text
JSONStringify(d) == [json |-> d]

\* mutation of Respond: a failed result is answered as content without the
\* isError flag
RespondUnflagged(r) ==
    IF "raised" \in DOMAIN r
    THEN [kind |-> "content", isError |-> TRUE,
          text |-> "Error: " \o ErrorMessage(r.raised, "Unknown error")]
    ELSE IF ~r.success
    THEN [kind |-> "content",
          text |-> "Error: " \o (IF "error" \in DOMAIN r THEN r.error ELSE "undefined")]
    ELSE [kind |-> "content", text |-> JSONStringify(r.data)]

\* what the handler does with the outcome of validateAndExecute; the response
\* to a successful result has no isError field
Respond(r) ==
    IF "raised" \in DOMAIN r
    THEN [kind |-> "content", isError |-> TRUE,
          text |-> "Error: " \o ErrorMessage(r.raised, "Unknown error")]
    ELSE IF ~r.success
    THEN [kind |-> "content", isError |-> TRUE,
          text |-> "Error: " \o (IF "error" \in DOMAIN r THEN r.error ELSE "undefined")]
    ELSE [kind |-> "content", text |-> JSONStringify(r.data)]

\* ---- the ReadResourceRequest handler's responses ----
\* the value of a property the object does not have, and what JSON.stringify
\* returns for it
Undefined == [undefined |-> TRUE]

\* `JSON.stringify(projectsResult.data, null, 2)`: a failure result has no data
ProjectsContent(r) ==
    IF "data" \in DOMAIN r THEN JSONStringify(r.data) ELSE Undefined

\* `this.resources.get(uri.split('://')[1])?.mimeType || 'text/plain'`
MimeType(u) ==
    IF u = "arcas://documentation" THEN "text/markdown"
    ELSE IF u \in ResourceUris THEN "application/json"
    ELSE "text/plain"

\* the handler's return value
ReadContents(u, content) ==
    [kind |-> "contents", uri |-> u, mimeType |-> MimeType(u), text |-> content]

\* the handler's catch block
ReadFailed(e) ==
    [kind |-> "McpError", code |-> "InternalError",
     message |-> "Failed to read resource: " \o ErrorMessage(e, "Unknown error")]

\* the protocol error McpError(ErrorCode.MethodNotFound, ...)
MethodNotFound == [kind |-> "McpError", code |-> "MethodNotFound"]

\* mutation of UnknownTool: the unknown name is answered like a failed tool call
UnknownToolAsErrorContent ==
    [kind |-> "content", isError |-> TRUE, text |-> "Error: Tool not found"]

\* what the handler does when this.tools.get(name) finds nothing
UnknownTool == MethodNotFound

\* ---- AbstractTool.validateAndExecute: the catch block ----
\* mutation of validateAndExecuteCatch: only the ZodError is handled
validateAndExecuteCatchRethrow(e) ==
    IF e.zod
    THEN Fail("Invalid parameters: " \o Join(e.issues, ", "))
    ELSE Raised(e)

validateAndExecuteCatch(e) ==
    IF e.zod
    THEN Fail("Invalid parameters: " \o Join(e.issues, ", "))
    ELSE Fail(ErrorMessage(e, "Unknown error occurred"))

\* validateAndExecute returns r to the handler, which answers the transport
\* the answer of one call as the transport sees it, with the call's request and
\* history and the ToolResult it was made from
Answer(c, rq, r, resp, h) ==
    [call |-> c, req |-> rq, result |-> r, response |-> resp, hist |-> h]

\* the handler invocation c has returned
Release(c) ==
    /\ pc' = [pc EXCEPT ![c] = "idle"]
    /\ req' = [req EXCEPT ![c] = None]
    /\ hist' = [hist EXCEPT ![c] = NoHist]

ReturnResult(c, rq, r, h) ==
    /\ Release(c)
    /\ out' = Answer(c, rq, r,
                     IF rq.uri = "" THEN Respond(r)
                     ELSE ReadContents(rq.uri, ProjectsContent(r)), h)

\* an exception leaves execute and reaches validateAndExecute's catch block
ThrowFromExecute(c, rq, e, h) ==
    ReturnResult(c, rq, validateAndExecuteCatch(e),
                 [h EXCEPT !.caught = "validateAndExecute"])

\* the call suspends on the awaited operation named l
Await(c, rq, l, h) ==
    /\ pc' = [pc EXCEPT ![c] = l]
    /\ req' = [req EXCEPT ![c] = rq]
    /\ hist' = [hist EXCEPT ![c] = h]
    /\ out' = None

\* mutation of RequiredGiven: only the project name is required for a create
RequiredGivenNameOnly(r) ==
    CASE r.action = "create" -> r.projectName # ""
      [] r.action \in {"open", "delete"} -> r.projectId # ""
      [] OTHER -> TRUE

\* the tests of ProjectTool.execute's switch: `!params.projectName ||
\* !params.projectType` for create, `!params.projectId` for open and delete
RequiredGiven(r) ==
    CASE r.action = "create" -> r.projectName # "" /\ r.projectType # ""
      [] r.action \in {"open", "delete"} -> r.projectId # ""
      [] OTHER -> TRUE

\* the error of the result returned when a required argument is not given
RequiredMessage(r) ==
    CASE r.action = "create" -> "Project name and type are required for creating a project"
      [] r.action = "open" -> "Project ID is required for opening a project"
      [] OTHER -> "Project ID is required for deleting a project"

\* execute after `await this.ensureLoggedIn()`: getPage, then the try block up to
\* its first await.  pg is the value of state.page at that moment.
ExecuteBody(c, r, pg, h) ==
    IF ~pg THEN ReturnResult(c, r, Fail("Browser page not available"), h)
    ELSE IF r.name = ProjectName /\ ~RequiredGiven(r)
    THEN ReturnResult(c, r, Fail(RequiredMessage(r)), h)
    ELSE LET first == Steps(r)[1] IN
         Await(c, r, first, [h EXCEPT !.pageOps = (first # "up_access") \/ @,
                                   !.gotos = (first \in GotoLabels) \/ @])

\* mutation of LoginFailed: ensureLoggedIn calls login() again when it returned
\* false
LoginFailedRetry(c, h) == Await(c, req[c], "login_check", h)

\* ensureLoggedIn after login() returned false
LoginFailed(c, h) ==
    ThrowFromExecute(c, req[c], Err("Failed to login to OnlineEDA. Please check credentials."), h)

\* ---- Init: the state after `new ArcasOnlineEDAMCPServer()` ----
\* ws: the workloads the client may send; docs: the results documents of the site
InitWith(ws, docs) ==
    /\ browser = FALSE
    /\ page = FALSE
    /\ isLoggedIn = FALSE
    /\ liveBrowsers = 0
    /\ launches = 0
    /\ envCreds \in BOOLEAN
    /\ startPc = "start"
    /\ initFailed = FALSE
    /\ alive = TRUE
    /\ sigPc = [k \in Sigs |-> "idle"]
    /\ workload \in ws
    /\ resultsPages = docs
    /\ pc = [c \in Calls |-> "idle"]
    /\ req = [c \in Calls |-> None]
    /\ hist = [c \in Calls |-> NoHist]
    /\ out = None

Init == InitWith(Workloads, {EmptyDocument})

\* the process ends: the handlers in flight and their results are gone with it
ProcessExit ==
    /\ alive' = FALSE
    /\ pc' = [c \in Calls |-> "exited"]
    /\ req' = [c \in Calls |-> None]
    /\ hist' = [c \in Calls |-> NoHist]

\* ---- start(): initialize, navigateToOnlineEDA, connect ----
\* the awaited steps of BrowserManager.initialize followed by navigateToOnlineEDA
InitSteps == <<"launch", "newPage", "setViewport", "goto", "waitForTimeout">>
FailPoints == {"none"} \cup {InitSteps[i] : i \in DOMAIN InitSteps} \cup {"connect"}

\* state.browser is assigned once puppeteer.launch has resolved
BrowserAfterInit(failAt) == failAt # "launch"
\* state.page is assigned once browser.newPage has resolved
PageAfterInit(failAt) == failAt \notin {"launch", "newPage"}

\* start() runs before the transport is connected and before the SIGINT handler is
\* installed, so no other handler of the process runs between its steps.
Start ==
    /\ alive /\ startPc = "start"
    /\ \E failAt \in FailPoints :
        /\ browser' = BrowserAfterInit(failAt)
        /\ page' = PageAfterInit(failAt)
        /\ liveBrowsers' = IF BrowserAfterInit(failAt) THEN 1 ELSE 0
        /\ launches' = launches + 1
        /\ initFailed' = (failAt \notin {"none", "connect"})
        /\ startPc' = IF failAt = "connect" THEN "failed" ELSE "serving"
        /\ IF failAt = "connect" THEN ProcessExit ELSE UNCHANGED <<alive, callVars>>
    /\ UNCHANGED <<isLoggedIn, envCreds, sigPc, workload, resultsPages, out>>

\* ---- the CallToolRequest handler up to its first suspension ----
\* BrowserManager.login up to its first await; pg is state.page
LoginEnter(c, r, pg, h) ==
    IF ~pg THEN ThrowFromExecute(c, r, Err("Browser not initialized"), h)
    ELSE Await(c, r, "login_check", [h EXCEPT !.pageOps = TRUE])

\* mutation of ensureLoggedIn: login() is called whatever isLoggedIn() says
ensureLoggedInAlways(c, r, h) == LoginEnter(c, r, page, h)

\* AbstractTool.ensureLoggedIn as called at the top of a page tool's execute
ensureLoggedIn(c, r, h) ==
    IF isLoggedIn THEN ExecuteBody(c, r, page, h) ELSE LoginEnter(c, r, page, h)

\* ---- NaturalLanguageTool: the example corpus ----
Example(q, i, t, p) == [query |-> q, interpretation |-> i, tool |-> t, params |-> p]

WorkflowStep(t, p) == [tool |-> t, params |-> p]

Examples ==
    <<Example("I want to create a new formal verification project for my CPU design",
              "Create formal verification project", ProjectName,
              [action |-> "create", projectType |-> "formal",
               projectName |-> "cpu_formal_verification"]),
      Example("Let's start a power analysis project for the GPU controller",
              "Create power analysis project", ProjectName,
              [action |-> "create", projectType |-> "power",
               projectName |-> "gpu_controller_power"]),
      Example("Set up equivalence checking between RTL and gate-level netlist",
              "Create equivalence checking project", ProjectName,
              [action |-> "create", projectType |-> "equivalence",
               projectName |-> "rtl_gate_equivalence"]),
      Example("Check if my RISC-V core meets all safety properties",
              "Run formal verification with safety properties", RunName,
              [verificationType |-> "formal",
               options |-> [properties |-> <<"safety">>, depth |-> 20]]),
      Example("Verify that the optimized design is functionally equivalent to the original",
              "Run equivalence verification", RunName,
              [verificationType |-> "equivalence"]),
      Example("Analyze power consumption during different operating modes",
              "Run power analysis verification", RunName,
              [verificationType |-> "power", options |-> [timeout |-> 600]]),
      Example("Find security vulnerabilities in my crypto module",
              "Run security verification", RunName,
              [verificationType |-> "security",
               options |-> [properties |-> <<"information_leakage", "timing_attacks">>]]),
      Example("Upload my Verilog files for the memory controller",
              "Upload Verilog design files", UploadName, [fileType |-> "verilog"]),
      Example("Add the SystemVerilog testbench to the project",
              "Upload SystemVerilog testbench", UploadName, [fileType |-> "systemverilog"]),
      Example("Import SDC timing constraints",
              "Upload constraint files", UploadName, [fileType |-> "constraints"]),
      Example("Show me all my verification projects",
              "Navigate to projects list", NavigateName, [action |-> "projects"]),
      Example("Go to the documentation",
              "Navigate to documentation", NavigateName, [action |-> "documentation"]),
      Example("I need to verify my AES encryption module meets FIPS standards",
              "Security verification workflow for cryptographic module", "workflow",
              [steps |->
                 <<WorkflowStep(ProjectName,
                                [action |-> "create", projectType |-> "security",
                                 projectName |-> "aes_fips_verification"]),
                   WorkflowStep(UploadName, [fileType |-> "verilog"]),
                   WorkflowStep(RunName,
                                [verificationType |-> "security",
                                 options |-> [properties |-> <<"fips_compliance">>]])>>]),
      Example("Compare power consumption before and after optimization",
              "Power comparison workflow", "workflow",
              [steps |->
                 <<WorkflowStep(ProjectName,
                                [action |-> "create", projectType |-> "power",
                                 projectName |-> "optimization_comparison"]),
                   WorkflowStep(UploadName,
                                [fileType |-> "verilog", note |-> "Upload both versions"]),
                   WorkflowStep(RunName, [verificationType |-> "power"])>>])>>

\* `example.query.toLowerCase().split(' ')` of every example
ExampleWords == [i \in DOMAIN Examples |-> split(toLowerCase(Examples[i].query))]

\* ---- NaturalLanguageTool.findBestExample ----
\* mutation of CommonWords: a word the query repeats is counted once
CommonWordsDistinct(words, exampleWords) ==
    Cardinality({words[i] : i \in {k \in DOMAIN words :
                    \E j \in DOMAIN exampleWords : exampleWords[j] = words[k]}})

\* `words.filter(word => exampleWords.includes(word)).length`: the positions of
\* words whose word is an element of exampleWords
CommonWords(words, exampleWords) ==
    Cardinality({i \in DOMAIN words :
                    \E j \in DOMAIN exampleWords : exampleWords[j] = words[i]})

Max(a, b) == IF a >= b THEN a ELSE b

\* `commonWords / Math.max(words.length, exampleWords.length)`, kept as a
\* fraction: the quotients of the code are doubles, and the correctly rounded
\* quotients of two such small integers compare as the fractions do
Score(words, exampleWords) ==
    [num |-> CommonWords(words, exampleWords),
     den |-> Max(Len(words), Len(exampleWords))]

Greater(a, b) == a.num * b.den > b.num * a.den

Half == [num |-> 1, den |-> 2]

\* mutation of Accepts: an example that only equals the best score so far
\* replaces the best match
AcceptsTies(score, bestScore) == ~Greater(bestScore, score) /\ Greater(score, Half)

\* `score > bestScore && score > 0.5`
Accepts(score, bestScore) == Greater(score, bestScore) /\ Greater(score, Half)

\* the loop over this.examples from the i-th example on; bestMatch is the index
\* of the best example so far, 0 for null
RECURSIVE BestFrom(_, _, _, _)
BestFrom(words, i, bestMatch, bestScore) ==
    IF i > Len(Examples) THEN bestMatch
    ELSE LET score == Score(words, ExampleWords[i]) IN
         IF Accepts(score, bestScore)
         THEN BestFrom(words, i + 1, i, score)
         ELSE BestFrom(words, i + 1, bestMatch, bestScore)

findBestExample(query) == BestFrom(split(query), 1, 0, [num |-> 0, den |-> 1])

\* the result returned for the matched example m
ExactMatch(m) ==
    Ok([interpretation |-> Examples[m].interpretation,
        suggestedTool |-> Examples[m].tool,
        suggestedParams |-> Examples[m].params,
        matchedExample |-> Examples[m].query,
        confidence |-> "high"])

\* ---- NaturalLanguageTool: the category predicates and their suggestions ----
\* `keywords.some(k => query.includes(k))`
some(keywords, query) == \E i \in DOMAIN keywords : includes(query, keywords[i])

isProjectCreation(query) ==
    /\ some(<<"create", "new", "start", "setup", "initialize", "begin">>, query)
    /\ some(<<"project", "verification", "analysis">>, query)

isVerification(query) ==
    \/ some(<<"verify", "check", "analyze", "test", "validate", "run", "execute">>, query)
    \/ some(<<"formal", "equivalence", "power", "security", "fpga">>, query)

isFileOperation(query) ==
    some(<<"upload", "add", "import", "load", "file", "design">>, query)

isNavigation(query) ==
    \/ some(<<"go", "navigate", "show", "view", "open", "list">>, query)
    \/ some(<<"home", "projects", "documentation", "settings">>, query)

isResultsQuery(query) ==
    some(<<"result", "report", "output", "findings", "status">>, query)

isHelpQuery(query) ==
    some(<<"help", "how", "what", "explain", "guide", "tutorial">>, query)

Group(t, ks) == [type |-> t, keywords |-> ks]

\* mutation of Detect: the loop has no break, so the last group with a keyword
\* contained in query wins
DetectLast(groups, query, dflt) ==
    IF \E i \in DOMAIN groups : some(groups[i].keywords, query)
    THEN groups[CHOOSE i \in DOMAIN groups :
                    /\ some(groups[i].keywords, query)
                    /\ \A j \in (i + 1)..Len(groups) : ~some(groups[j].keywords, query)].type
    ELSE dflt

\* the loop over Object.entries(groups), which keeps the order of declaration:
\* the type of the first group with a keyword contained in query, else dflt
Detect(groups, query, dflt) ==
    IF \E i \in DOMAIN groups : some(groups[i].keywords, query)
    THEN groups[CHOOSE i \in DOMAIN groups :
                    /\ some(groups[i].keywords, query)
                    /\ \A j \in 1..(i - 1) : ~some(groups[j].keywords, query)].type
    ELSE dflt

ProjectTypes ==
    <<Group("formal", <<"formal", "property", "assertion", "correctness", "safety">>),
      Group("equivalence", <<"equivalence", "equivalent", "compare", "match", "same">>),
      Group("power", <<"power", "energy", "consumption", "optimization", "low-power">>),
      Group("security", <<"security", "secure", "vulnerability", "crypto", "attack">>),
      Group("fpga", <<"fpga", "synthesis", "implementation", "xilinx", "altera">>)>>

VerificationTypes ==
    <<Group("formal", <<"formal", "property", "assertion", "prove", "theorem">>),
      Group("equivalence", <<"equivalence", "equivalent", "compare", "netlist", "rtl">>),
      Group("power", <<"power", "energy", "consumption", "watts", "dynamic">>),
      Group("security", <<"security", "secure", "vulnerability", "attack", "leak">>),
      Group("fpga", <<"fpga", "synthesis", "implementation", "timing", "resource">>)>>

\* mutation of FileTypes: the systemverilog group is declared before the verilog
\* group
FileTypesSystemVerilogFirst ==
    <<Group("systemverilog", <<"systemverilog", ".sv", "testbench">>),
      Group("verilog", <<"verilog", ".v", "rtl">>),
      Group("vhdl", <<"vhdl", ".vhd">>),
      Group("constraints", <<"constraint", "sdc", "xdc", "timing">>)>>

FileTypes ==
    <<Group("verilog", <<"verilog", ".v", "rtl">>),
      Group("systemverilog", <<"systemverilog", ".sv", "testbench">>),
      Group("vhdl", <<"vhdl", ".vhd">>),
      Group("constraints", <<"constraint", "sdc", "xdc", "timing">>)>>

NavigationMap ==
    <<Group("home", <<"home", "dashboard", "main">>),
      Group("projects", <<"projects", "list", "all">>),
      Group("new-project", <<"new", "create">>),
      Group("documentation", <<"docs", "documentation", "help", "guide">>),
      Group("settings", <<"settings", "config", "preferences">>)>>

\* `this.examples.filter(e => e.tool === t)`
ExamplesOfTool(t) == SelectSeq(Examples, LAMBDA e : e.tool = t)

\* The suggestions carry further fixed texts (nextSteps, tips, supportedFormats,
\* overview, workflow, resources, ...), the same for every query; the records
\* below hold the fields that depend on the query or that name the suggestion.
suggestProjectCreation(query) ==
    Ok([interpretation |-> "Create a new project",
        suggestedTool |-> ProjectName,
        suggestedParams |->
            [action |-> "create",
             projectType |-> Detect(ProjectTypes, query, "formal"),
             projectName |-> "Suggested: Extract from your requirements"],
        examples |-> SelectSeq(ExamplesOfTool(ProjectName),
                               LAMBDA e : e.params.action = "create")])

suggestVerification(query) ==
    Ok([interpretation |-> "Run verification",
        suggestedTool |-> RunName,
        suggestedParams |->
            [verificationType |-> Detect(VerificationTypes, query, "formal"),
             projectId |-> "Required: Use current project ID"],
        examples |-> ExamplesOfTool(RunName)])

suggestFileUpload(query) ==
    Ok([interpretation |-> "Upload design files",
        suggestedTool |-> UploadName,
        suggestedParams |->
            [projectId |-> "Required: Use current project ID",
             filePath |-> "Required: Path to your design file",
             fileType |-> Detect(FileTypes, query, "verilog")],
        examples |-> ExamplesOfTool(UploadName)])

suggestNavigation(query) ==
    Ok([interpretation |-> "Navigate to platform section",
        suggestedTool |-> NavigateName,
        suggestedParams |-> [action |-> Detect(NavigationMap, query, "home")],
        availableActions |-> [i \in DOMAIN NavigationMap |-> NavigationMap[i].type]])

\* mutation of suggestGetResults: without a current project the results query
\* is answered with a failure
suggestGetResultsNeedsProject(projectId) ==
    IF projectId # ""
    THEN Ok([interpretation |-> "Get verification results",
             suggestedAction |-> "Navigate to project " \o projectId \o " results page",
             suggestedTool |-> NavigateName])
    ELSE Fail("First select a project, then navigate to its results")

\* projectId is params.context?.currentProject; "" stands for a missing context,
\* a missing currentProject and the empty string, which are all falsy
suggestGetResults(projectId) ==
    Ok([interpretation |-> "Get verification results",
        suggestedAction |->
            IF projectId # ""
            THEN "Navigate to project " \o projectId \o " results page"
            ELSE "First select a project, then navigate to its results",
        suggestedTool |-> NavigateName])

\* `seq.slice(0, n)`
SliceTo(seq, n) == SubSeq(seq, 1, IF Len(seq) < n THEN Len(seq) ELSE n)

provideEnhancedHelp ==
    Ok([interpretation |-> "Help requested",
        exampleQueries |-> [i \in DOMAIN SliceTo(Examples, 5) |-> Examples[i].query]])

provideFallbackWithExamples(query) ==
    Ok([interpretation |-> "Query understood but needs clarification",
        originalQuery |-> query,
        suggestions |-> <<"Try rephrasing your query",
                          "Use specific keywords like: create, verify, upload, navigate",
                          "Mention the verification type: formal, equivalence, power, security, fpga">>,
        exampleQueries |->
            [i \in DOMAIN SliceTo(Examples, 10)
               |-> [query |-> Examples[i].query, action |-> Examples[i].interpretation]]])

\* mutation of NaturalLanguageResult: the fallback is given the query in lower
\* case
NaturalLanguageResultLowerCaseFallback(r) ==
    LET query == toLowerCase(r.query)
        exactMatch == findBestExample(query)
    IN  IF exactMatch # 0 THEN ExactMatch(exactMatch)
        ELSE IF isProjectCreation(query) THEN suggestProjectCreation(query)
        ELSE IF isVerification(query) THEN suggestVerification(query)
        ELSE IF isFileOperation(query) THEN suggestFileUpload(query)
        ELSE IF isNavigation(query) THEN suggestNavigation(query)
        ELSE IF isResultsQuery(query) THEN suggestGetResults(r.currentProject)
        ELSE IF isHelpQuery(query) THEN provideEnhancedHelp
        ELSE provideFallbackWithExamples(query)

\* mutation of NaturalLanguageResult: the file-operation predicate is tested
\* before the verification predicate
NaturalLanguageResultFileFirst(r) ==
    LET query == toLowerCase(r.query)
        exactMatch == findBestExample(query)
    IN  IF exactMatch # 0 THEN ExactMatch(exactMatch)
        ELSE IF isProjectCreation(query) THEN suggestProjectCreation(query)
        ELSE IF isFileOperation(query) THEN suggestFileUpload(query)
        ELSE IF isVerification(query) THEN suggestVerification(query)
        ELSE IF isNavigation(query) THEN suggestNavigation(query)
        ELSE IF isResultsQuery(query) THEN suggestGetResults(r.currentProject)
        ELSE IF isHelpQuery(query) THEN provideEnhancedHelp
        ELSE provideFallbackWithExamples(r.query)

\* the try block of NaturalLanguageTool.execute for the request r
NaturalLanguageResult(r) ==
    LET query == toLowerCase(r.query)
        exactMatch == findBestExample(query)
    IN  IF exactMatch # 0 THEN ExactMatch(exactMatch)
        ELSE IF isProjectCreation(query) THEN suggestProjectCreation(query)
        ELSE IF isVerification(query) THEN suggestVerification(query)
        ELSE IF isFileOperation(query) THEN suggestFileUpload(query)
        ELSE IF isNavigation(query) THEN suggestNavigation(query)
        ELSE IF isResultsQuery(query) THEN suggestGetResults(r.currentProject)
        ELSE IF isHelpQuery(query) THEN provideEnhancedHelp
        ELSE provideFallbackWithExamples(r.query)

\* the score findBestExample computes for each example, in corpus order
StageAScores(r) ==
    [i \in DOMAIN Examples |-> Score(split(toLowerCase(r.query)), ExampleWords[i])]

\* execute reads nothing but its parameters and the corpus, so its outcome is a
\* function of the request; it is computed once for each request of the model
NaturalLanguageAnswers ==
    [r \in NLRequests |->
        [result |-> NaturalLanguageResult(r), scores |-> StageAScores(r)]]

\* mutation of NaturalLanguageExecute: execute starts with
\* `await this.ensureLoggedIn()` as the execute of the page tools does
NaturalLanguageExecuteLoggedIn(c, r, h) ==
    IF isLoggedIn
    THEN ReturnResult(c, r, NaturalLanguageAnswers[r].result,
                      [h EXCEPT !.scores = NaturalLanguageAnswers[r].scores])
    ELSE LoginEnter(c, r, page, h)

\* NaturalLanguageTool.execute: synchronous, never touches the session
NaturalLanguageExecute(c, r, h) ==
    ReturnResult(c, r, NaturalLanguageAnswers[r].result,
                 [h EXCEPT !.scores = NaturalLanguageAnswers[r].scores])

\* mutation of validateAndExecute: execute is called whatever schema.parse says
validateAndExecuteUnchecked(c, r) ==
    LET h == [NoHist EXCEPT !.executed = TRUE] IN
    IF r.name = NLName THEN NaturalLanguageExecute(c, r, h)
    ELSE ensureLoggedIn(c, r, h)

\* AbstractTool.validateAndExecute up to the first suspension of execute
validateAndExecute(c, r) ==
    IF r.issues # <<>>
    THEN ReturnResult(c, r, validateAndExecuteCatch(ZodErr(r.issues)),
                      [NoHist EXCEPT !.caught = "validateAndExecute"])
    ELSE LET h == [NoHist EXCEPT !.executed = TRUE] IN
         IF r.name = NLName THEN NaturalLanguageExecute(c, r, h)
         ELSE ensureLoggedIn(c, r, h)

CallTool(c) ==
    /\ alive /\ startPc = "serving"
    /\ pc[c] = "idle"
    /\ \A d \in Calls : d < c => pc[d] # "idle"
    /\ \E r \in workload :
        IF r.name \notin ToolNames
        THEN /\ Release(c)
             /\ out' = Answer(c, r, None, UnknownTool, NoHist)
        ELSE validateAndExecute(c, r)
    /\ UNCHANGED sessionVars
    /\ UNCHANGED serverVars

\* ---- BrowserManager.login, one awaited operation per step ----
\* a puppeteer operation can only succeed while the browser process is there
PageOpCanSucceed == liveBrowsers > 0

\* mutation of HasCredentials: login goes on to the form with undefined credentials
HasCredentialsAlways == TRUE

\* `!user || !pass` is false: ensureLoggedIn calls login() without arguments, so
\* user and pass are the two environment values
HasCredentials == envCreds

\* the first checkLoginStatus of login() resolves: page.$ found a marker or not
\* (a rejected page.$ is caught inside checkLoginStatus and counts as not found)
LoginCheck(c) ==
    /\ alive /\ pc[c] = "login_check"
    /\ \E found \in BOOLEAN :
        /\ found => PageOpCanSucceed
        /\ IF found
           THEN /\ isLoggedIn' = TRUE
                /\ ExecuteBody(c, req[c], page, hist[c])
           ELSE /\ isLoggedIn' = isLoggedIn
                /\ IF HasCredentials /\ page
                   THEN Await(c, req[c], "login_waitForSelector", hist[c])
                   ELSE LoginFailed(c, hist[c])
    /\ UNCHANGED <<browser, page, liveBrowsers, launches>>
    /\ UNCHANGED serverVars

\* waitForSelector and the two page.type calls on the login form
LoginForm(c) ==
    /\ alive /\ pc[c] \in {"login_waitForSelector", "login_type_user", "login_type_pass"}
    /\ \E ok \in BOOLEAN :
        /\ ok => PageOpCanSucceed
        /\ IF ok /\ page
           THEN CASE pc[c] = "login_waitForSelector" ->
                         Await(c, req[c], "login_type_user", hist[c])
                  [] pc[c] = "login_type_user" ->
                         Await(c, req[c], "login_type_pass", hist[c])
                  [] OTHER -> Await(c, req[c], "login_submit", hist[c])
           ELSE LoginFailed(c, hist[c])
    /\ UNCHANGED sessionVars
    /\ UNCHANGED serverVars

\* Promise.all([click, waitForNavigation]) resolves, then checkLoginStatus starts
LoginSubmit(c) ==
    /\ alive /\ pc[c] = "login_submit"
    /\ \E ok \in BOOLEAN :
        /\ ok => PageOpCanSucceed
        /\ IF ~ok
           THEN isLoggedIn' = isLoggedIn /\ LoginFailed(c, hist[c])
           ELSE IF page
           THEN isLoggedIn' = isLoggedIn /\ Await(c, req[c], "login_verify", hist[c])
           ELSE isLoggedIn' = FALSE /\ LoginFailed(c, hist[c])
    /\ UNCHANGED <<browser, page, liveBrowsers, launches>>
    /\ UNCHANGED serverVars

\* `this.state.isLoggedIn = await this.checkLoginStatus()` and the return
LoginVerify(c) ==
    /\ alive /\ pc[c] = "login_verify"
    /\ \E found \in BOOLEAN :
        /\ found => PageOpCanSucceed
        /\ isLoggedIn' = found
        /\ IF found THEN ExecuteBody(c, req[c], page, hist[c])
           ELSE LoginFailed(c, hist[c])
    /\ UNCHANGED <<browser, page, liveBrowsers, launches>>
    /\ UNCHANGED serverVars

\* ---- the try block of a page tool's execute, one awaited operation per step ----
\* mutation of ExecuteCatch: the message is passed on without the tool's prefix
ExecuteCatchBare(c, e) ==
    ReturnResult(c, req[c], Fail(ErrorMessage(e, "Unknown error")),
                 [hist[c] EXCEPT !.caught = "execute"])

\* mutation of ExecuteCatch: the failure is swallowed and the call goes on to the
\* extraction of the results
ExecuteCatchContinue(c, e) == Await(c, req[c], "rv_evaluate", hist[c])

\* mutation of ExecuteCatch: the catch block starts the tool's sequence of
\* operations again instead of returning the failure
ExecuteCatchRestart(c, e) == Await(c, req[c], Steps(req[c])[1], hist[c])

\* what `await fs.access(absolutePath)` rejects with when the path does not
\* resolve to an accessible file
SourceMissing == Err("ENOENT: no such file or directory, access")

\* the catch block of the tool's execute
ExecuteCatch(c, e) ==
    ReturnResult(c, req[c], Fail(CatchPrefix(req[c]) \o ErrorMessage(e, "Unknown error")),
                 [hist[c] EXCEPT !.caught = "execute"])

\* what is in the page's form once the operation l of the request r has resolved
Entered(entered, r, l) ==
    CASE l = "rv_select" ->
             Append(entered, [into |-> "verificationType", text |-> r.verificationType])
      [] l = "rv_type_timeout" ->
             Append(entered, [into |-> "timeout", text |-> NumberToString(r.options.timeout)])
      [] l = "rv_type_depth" ->
             Append(entered, [into |-> "depth", text |-> NumberToString(r.options.depth)])
      [] OTHER -> entered

\* the waits started once the operation l of the request r has been issued
Started(waits, r, l) ==
    CASE l = "rv_start" -> Append(waits, RunningWaitMs)
      [] l = "rv_waitComplete" -> Append(waits, WaitCompleteTimeoutMs(r))
      [] OTHER -> waits

BodyStep(c) ==
    /\ alive /\ pc[c] \in BodyLabels
    /\ LET r == req[c]
           l == pc[c]
           seq == Steps(r)
           i == IndexOf(seq, l)
       IN  \/ /\ IF l = "up_access" THEN r.fileExists ELSE PageOpCanSucceed
              /\ IF i < Len(seq)
                 THEN Await(c, r, seq[i + 1],
                            [hist[c] EXCEPT !.pageOps = TRUE,
                                            !.gotos = (seq[i + 1] \in GotoLabels) \/ @,
                                            !.entered = Entered(@, r, l),
                                            !.waits = Started(@, r, seq[i + 1])])
                 ELSE IF r.name = RunName
                 THEN \E d \in resultsPages :
                        ReturnResult(c, r, Ok(RunData(r, extractVerificationResults(d))),
                                     [hist[c] EXCEPT !.document = d])
                 ELSE ReturnResult(c, r, Ok(SuccessData(r)), hist[c])
           \/ /\ l = "up_query" /\ PageOpCanSucceed
              /\ ReturnResult(c, r, Fail("File upload input not found on page"), hist[c])
           \/ /\ l = "up_access" /\ ~r.fileExists
              /\ ExecuteCatch(c, SourceMissing)
           \/ /\ l # "up_access"
              /\ \E e \in PageThrowables : ExecuteCatch(c, e)
    /\ UNCHANGED sessionVars
    /\ UNCHANGED serverVars

\* mutation of Sigint: close() is called without await, so process.exit(0) runs
\* at once
SigintExitsAtOnce(k) ==
    /\ alive /\ startPc = "serving" /\ sigPc[k] = "idle"
    /\ \A j \in Sigs : j < k => sigPc[j] # "idle"
    /\ sigPc' = [sigPc EXCEPT ![k] = "exited"]
    /\ ProcessExit
    /\ out' = None
    /\ UNCHANGED <<envCreds, startPc, initFailed, workload, resultsPages>>
    /\ UNCHANGED sessionVars

\* ---- SIGINT handler: await browserManager.close(); process.exit(0) ----
Sigint(k) ==
    /\ alive /\ startPc = "serving" /\ sigPc[k] = "idle"
    /\ \A j \in Sigs : j < k => sigPc[j] # "idle"
    /\ IF browser
       THEN /\ sigPc' = [sigPc EXCEPT ![k] = "closing"]
            /\ UNCHANGED <<alive, callVars>>
       ELSE /\ sigPc' = [sigPc EXCEPT ![k] = "exited"]
            /\ ProcessExit
    /\ out' = None
    /\ UNCHANGED <<envCreds, startPc, initFailed, workload, resultsPages>>
    /\ UNCHANGED sessionVars

\* mutation of CloseResolve: close() drops the browser and the page but leaves
\* the logged-in flag as it was
CloseResolveKeepsLogin(k) ==
    /\ alive /\ sigPc[k] = "closing"
    /\ \/ /\ browser' = FALSE
          /\ page' = FALSE
          /\ isLoggedIn' = isLoggedIn
          /\ liveBrowsers' = 0
          /\ sigPc' = [sigPc EXCEPT ![k] = "exited"]
          /\ ProcessExit
       \/ /\ sigPc' = [sigPc EXCEPT ![k] = "rejected"]
          /\ \/ ProcessExit
             \/ UNCHANGED <<alive, callVars>>
          /\ UNCHANGED <<browser, page, isLoggedIn, liveBrowsers>>
    /\ out' = None
    /\ UNCHANGED <<launches, envCreds, startPc, initFailed, workload, resultsPages>>

\* browser.close() resolves or rejects; the rest of close() and of the handler
CloseResolve(k) ==
    /\ alive /\ sigPc[k] = "closing"
    /\ \/ /\ browser' = FALSE
          /\ page' = FALSE
          /\ isLoggedIn' = FALSE
          /\ liveBrowsers' = 0
          /\ sigPc' = [sigPc EXCEPT ![k] = "exited"]
          /\ ProcessExit
       \/ /\ sigPc' = [sigPc EXCEPT ![k] = "rejected"]
          /\ \/ ProcessExit
             \/ UNCHANGED <<alive, callVars>>
          /\ UNCHANGED <<browser, page, isLoggedIn, liveBrowsers>>
    /\ out' = None
    /\ UNCHANGED <<launches, envCreds, startPc, initFailed, workload, resultsPages>>

Next ==
    \/ Start
    \/ \E c \in Calls : CallTool(c)
    \/ \E c \in Calls : LoginCheck(c)
    \/ \E c \in Calls : LoginForm(c)
    \/ \E c \in Calls : LoginSubmit(c)
    \/ \E c \in Calls : LoginVerify(c)
    \/ \E c \in Calls : BodyStep(c)
    \/ \E k \in Sigs : Sigint(k)
    \/ \E k \in Sigs : CloseResolve(k)

Spec == Init /\ [][Next]_vars

\* ---- run verification in detail ----
\* The client sends run verification calls with one options object per run of the
\* server, one call at a time, and the results view shows any of Documents.
InitRun == InitWith({{r} : r \in RunRequests}, Documents)

\* the client sends a call when no other call is in flight
CallToolAlone(c) ==
    /\ \A d \in Calls : pc[d] = "idle"
    /\ CallTool(c)

NextRun ==
    \/ Start
    \/ \E c \in Calls : CallToolAlone(c)
    \/ \E c \in Calls : LoginCheck(c)
    \/ \E c \in Calls : LoginForm(c)
    \/ \E c \in Calls : LoginSubmit(c)
    \/ \E c \in Calls : LoginVerify(c)
    \/ \E c \in Calls : BodyStep(c)
    \/ \E k \in Sigs : Sigint(k)
    \/ \E k \in Sigs : CloseResolve(k)

SpecRun == InitRun /\ [][NextRun]_vars

\* ---- the project tool in detail ----
\* The client sends calls of the project tool with one set of arguments per run
\* of the server, one call at a time.
InitProject == InitWith({{r} : r \in ProjectRequests}, {EmptyDocument})

SpecProject == InitProject /\ [][NextRun]_vars

\* ---- the natural-language tool in detail ----
\* The client sends natural-language calls with one query per run of the server.
InitNL == InitWith({{r} : r \in NLRequests}, {EmptyDocument})

NextNL ==
    \/ Start
    \/ \E c \in Calls : CallTool(c)
    \/ \E k \in Sigs : Sigint(k)
    \/ \E k \in Sigs : CloseResolve(k)

SpecNL == InitNL /\ [][NextNL]_vars

\* ---- the ReadResourceRequest handler ----
\* up to its first suspension; the client sends a read when nothing is in flight
ReadResource(c) ==
    /\ alive /\ startPc = "serving"
    /\ \A d \in Calls : pc[d] = "idle"
    /\ \E r \in workload :
        /\ r.uri # ""
        /\ CASE r.uri = "arcas://projects" -> validateAndExecute(c, r)
             [] r.uri = "arcas://verification-results" ->
                    /\ Release(c)
                    /\ out' = Answer(c, r, None,
                                     ReadContents(r.uri, JSONStringify("message and tip")),
                                     NoHist)
             [] r.uri = "arcas://platform-status" ->
                    /\ Release(c)
                    /\ out' = Answer(c, r, None,
                                     ReadContents(r.uri,
                                         JSONStringify([status |-> "online",
                                                        browser |-> IF isLoggedIn
                                                                    THEN "connected"
                                                                    ELSE "disconnected"])),
                                     NoHist)
             [] r.uri = "arcas://documentation" ->
                    /\ Release(c)
                    /\ out' = Answer(c, r, None,
                                     ReadContents(r.uri, JSONStringify("documentation")),
                                     NoHist)
             [] OTHER ->
                    /\ Release(c)
                    /\ out' = Answer(c, r, None,
                                     ReadFailed(Err("Unknown resource: " \o r.uri)), NoHist)
    /\ UNCHANGED sessionVars
    /\ UNCHANGED serverVars

\* The client reads one resource per run of the server, one read at a time.
InitRead == InitWith({{r} : r \in ReadRequests}, {EmptyDocument})

NextRead ==
    \/ Start
    \/ \E c \in Calls : ReadResource(c)
    \/ \E c \in Calls : LoginCheck(c)
    \/ \E c \in Calls : LoginForm(c)
    \/ \E c \in Calls : LoginSubmit(c)
    \/ \E c \in Calls : LoginVerify(c)
    \/ \E c \in Calls : BodyStep(c)
    \/ \E k \in Sigs : Sigint(k)
    \/ \E k \in Sigs : CloseResolve(k)

SpecRead == InitRead /\ [][NextRead]_vars

\* Every awaited promise of a call in flight is settled in the end (the remote
\* waits end by success or by their time limit), and Node's event loop then runs
\* the continuation of the call: each step of a call, once it can be taken, is
\* taken unless the process has exited first.
StepsSettle ==
    \A c \in Calls :
        /\ WF_vars(LoginCheck(c))
        /\ WF_vars(LoginForm(c))
        /\ WF_vars(LoginSubmit(c))
        /\ WF_vars(LoginVerify(c))
        /\ WF_vars(BodyStep(c))

\* the workloads of Spec sent by a client that waits for each answer before its
\* next call, under the fairness above
SpecLive == Init /\ [][NextRun]_vars /\ StepsSettle

TypeOK ==
    /\ browser \in BOOLEAN /\ page \in BOOLEAN /\ isLoggedIn \in BOOLEAN
    /\ liveBrowsers \in 0..1
    /\ \A c \in Calls : pc[c] \in {"idle", "exited"} \cup LoginLabels \cup BodyLabels

\* ======================= claims =======================

\* the last step answered a tool call
Answered == out # None

IsToolResult(r) == "success" \in DOMAIN r

\* C1: validateAndExecute never raises: whenever a call of a registered tool is
\* answered - after a validation failure, a throwing ensureLoggedIn, a missing
\* page or a throwing page operation - validateAndExecute returned a ToolResult.
C1_DispatchNeverRaises ==
    (Answered /\ out.req.name \in ToolNames) => IsToolResult(out.result)

\* a call whose ensureLoggedIn threw is answered with a failure result
C1_Witness ==
    /\ Answered /\ out.hist.caught = "validateAndExecute" /\ out.hist.pageOps
    /\ out.result = [success |-> FALSE,
                     error |-> "Failed to login to OnlineEDA. Please check credentials."]

\* C2: every ToolResult has success=false exactly when error is a non-empty
\* message and data is absent, and success=true exactly when data is present and
\* error is absent.
C2_ResultShape ==
    (Answered /\ IsToolResult(out.result)) =>
        LET r == out.result
            hasError == "error" \in DOMAIN r
            hasData == "data" \in DOMAIN r
        IN  /\ (~r.success) <=> (hasError /\ ~hasData /\ (hasError => r.error # ""))
            /\ r.success <=> (hasData /\ ~hasError)

\* a page operation rejected with an empty message and the tool's catch block
\* made a failure result of it
C2_Witness ==
    /\ Answered /\ out.hist.caught = "execute"
    /\ out.result = [success |-> FALSE, error |-> "Navigation failed: "]

\* the operations a tool body awaits on the shared page, from its page.goto to
\* its last extraction
PageRegion == BodyLabels \ {"up_access"}

\* C3: domain operations on the shared page are mutually exclusive: while one
\* call is inside its navigate-act-extract sequence no other call is inside its own.
C3_PageMutualExclusion ==
    Cardinality({c \in Calls : pc[c] \in PageRegion}) <= 1

\* the awaited operations of a login attempt: filling in and submitting the form
LoginAttemptLabels ==
    {"login_waitForSelector", "login_type_user", "login_type_pass", "login_submit",
     "login_verify"}

\* C4: login is single-flight: at no time are two calls both performing a login
\* attempt (typing and submitting the credentials).
C4_SingleFlightLogin ==
    Cardinality({c \in Calls : pc[c] \in LoginAttemptLabels}) <= 1

\* C5: an exception raised by ensureLoggedIn is caught inside the tool's execute
\* and never reaches validateAndExecute's catch block.
C5_SessionErrorCaughtInExecute ==
    (Answered /\ out.hist.executed) => out.hist.caught # "validateAndExecute"

\* the error text the claim expects for the issue messages
ExpectedValidationError(issues) ==
    IF issues = <<"Required">> THEN "Invalid parameters: Required"
    ELSE "Invalid parameters: Required, Invalid enum value"

\* C6: when the arguments fail schema validation the call returns success=false
\* with the joined validation messages, execute is never entered, no login and no
\* page operation happens, and the session state is unchanged.
C6_ValidationFailure ==
    /\ []((Answered /\ out.req.name \in ToolNames /\ out.req.issues # <<>>) =>
            /\ out.result = [success |-> FALSE,
                             error |-> ExpectedValidationError(out.req.issues)]
            /\ ~out.hist.executed /\ ~out.hist.pageOps)
    /\ [][(Answered' /\ out'.req.name \in ToolNames /\ out'.req.issues # <<>>) =>
            (pc[out'.call] = "idle" /\ UNCHANGED sessionVars)]_vars

\* a call with two validation issues is answered while the session is
\* authenticated
C6_Witness ==
    /\ Answered /\ Len(out.req.issues) = 2 /\ isLoggedIn
    /\ IsToolResult(out.result) /\ ~out.result.success

\* C7: a call naming an unregistered tool is answered with McpError
\* MethodNotFound and with no ToolResult; no handler runs and the session state
\* is unchanged.
C7_UnknownTool ==
    /\ []((Answered /\ out.req.name \notin ToolNames) =>
            /\ out.response = [kind |-> "McpError", code |-> "MethodNotFound"]
            /\ ~IsToolResult(out.result)
            /\ out.hist = NoHist)
    /\ [][(Answered' /\ out'.req.name \notin ToolNames) =>
            (pc[out'.call] = "idle" /\ UNCHANGED sessionVars)]_vars

\* an unknown tool name is answered while the session is authenticated and
\* another call is in flight
C7_Witness ==
    /\ Answered /\ out.req.name = "no_such_tool" /\ isLoggedIn /\ page
    /\ \E c \in Calls : pc[c] \in BodyLabels

\* C8: a browser/page handle exists exactly when the session's phase is Ready or
\* Authenticated, and at most one browser exists in the process.  The phase is
\* read off the life cycle: Closed once a close() has completed, Uninitialized
\* before start() and after a failed initialization, else Authenticated or Ready
\* by isLoggedIn.
C8_HandleIffReady ==
    LET phase ==
            IF \E k \in Sigs : sigPc[k] = "exited" THEN "Closed"
            ELSE IF startPc # "serving" \/ initFailed THEN "Uninitialized"
            ELSE IF isLoggedIn THEN "Authenticated"
            ELSE "Ready"
    IN  /\ (browser \/ page) <=> (phase \in {"Ready", "Authenticated"})
        /\ liveBrowsers <= 1

\* C9: a failed initialization leaves the session with no browser and no page,
\* and is not retried.
C9_FailedInitHoldsNothing ==
    initFailed => (~browser /\ ~page /\ launches = 1)

\* C10: once close() has ended, normally or by the browser's close failing, the
\* session has no browser, no page and isLoggedIn=false.
C10_CloseResets ==
    \A k \in Sigs :
        sigPc[k] \in {"exited", "rejected"} => (~browser /\ ~page /\ ~isLoggedIn)

C12_EnsureLoggedInNoOp ==
    [][\A c \in Calls :
        (/\ pc[c] = "idle" /\ isLoggedIn
         /\ \/ pc'[c] \in LoginLabels \cup BodyLabels
            \/ Answered' /\ out'.call = c /\ out'.hist.executed /\ out'.req.name # NLName)
        => /\ pc'[c] \notin LoginLabels
           /\ pc'[c] \in BodyLabels =>
                 /\ pc'[c] = Steps(req'[c])[1]
                 /\ pc'[c] = "up_access" => ~hist'[c].pageOps
           /\ (Answered' /\ out'.call = c) => ~out'.hist.pageOps
           /\ UNCHANGED sessionVars]_vars

\* an upload call that arrived on an authenticated session is at its first
\* operation, the file access, and no page operation has been issued for it
C12_Witness ==
    \E c \in Calls :
        pc[c] = "up_access" /\ isLoggedIn /\ hist[c].executed /\ ~hist[c].pageOps

\* the answer of the last step is the one of a run verification call
RunAnswered == Answered /\ out.req.name = RunName /\ IsToolResult(out.result)

\* C13: in run verification the wait for the completion indicator has a time
\* limit of options.timeout seconds for every supplied options.timeout, and of 300
\* seconds when none is supplied; when the wait fails the call returns
\* success=false with no data.
C13_WaitEndsAtSuppliedTimeout ==
    /\ \A c \in Calls :
          pc[c] = "rv_waitComplete" =>
              hist[c].waits[Len(hist[c].waits)] =
                  (IF "timeout" \in DOMAIN req[c].options
                   THEN req[c].options.timeout ELSE 300) * 1000
    /\ (RunAnswered /\ out.hist.caught = "execute") =>
          (~out.result.success /\ "data" \notin DOMAIN out.result)

\* the awaited operations of login, in order
LoginOrder ==
    <<"login_check", "login_waitForSelector", "login_type_user", "login_type_pass",
      "login_submit", "login_verify">>

\* the label that follows l in the step sequence seq, or l itself at the end
NextIn(seq, l) ==
    IF IndexOf(seq, l) < Len(seq) THEN seq[IndexOf(seq, l) + 1] ELSE l

\* C14: in run verification a failure of login, navigation, configuration, the
\* trigger with its 5 s wait for the running indicator, or the wait for
\* completion ends the call: every step of the call either moves to the next
\* operation in order or answers the call; an answer with success=true comes only
\* from the extraction step after both waits; a failure answer carries no data
\* and no document was extracted for it.
C14_RunFailureIsFatal ==
    /\ [](RunAnswered =>
            IF out.result.success
            THEN /\ out.hist.document # None
                 /\ Len(out.hist.waits) = 2 /\ out.hist.waits[1] = 5000
                 /\ out.hist.gotos /\ Len(out.hist.entered) >= 1
            ELSE "data" \notin DOMAIN out.result /\ out.hist.document = None)
    /\ [][\A c \in Calls :
            (pc[c] \in LoginLabels \cup BodyLabels /\ req[c].name = RunName
                /\ pc'[c] # pc[c]) =>
              \/ pc'[c] = "exited"
              \/ /\ pc'[c] = "idle" /\ Answered' /\ out'.call = c
                 /\ out'.result.success => pc[c] = "rv_evaluate"
              \/ /\ pc[c] \in LoginLabels
                 /\ pc'[c] \in {NextIn(LoginOrder, pc[c]), "rv_goto"}
              \/ /\ pc[c] \in BodyLabels
                 /\ pc'[c] = NextIn(Steps(req[c]), pc[c])]_vars

\* a run with a timeout and a depth typed into the form failed at the trigger or
\* the wait for the running indicator and was answered with the failure
C14_Witness ==
    /\ RunAnswered /\ out.hist.caught = "execute" /\ ~out.result.success
    /\ Len(out.hist.entered) = 3 /\ out.hist.waits = <<5000>>

\* C15: when the run completes and the page has no pass marker, no violation
\* entry and no statistic element, the call returns success=true with
\* passed=false, no violations and all four statistics 0.
C15_EmptyPageExtraction ==
    (RunAnswered /\ out.hist.document = [passedMarker |-> FALSE, items |-> <<>>, stats |-> <<>>]) =>
        LET zero == [nan |-> FALSE, val |-> 0] IN
        /\ out.result.success
        /\ out.result.data.results =
              [passed |-> FALSE, violations |-> <<>>,
               statistics |-> [totalChecks |-> zero, passed |-> zero,
                               failed |-> zero, warnings |-> zero]]

\* a run with options was answered from a page without any of the elements
C15_Witness ==
    /\ RunAnswered /\ out.hist.document = EmptyDocument
    /\ out.req.options # NoOptions /\ out.result.success

\* every character of the text is a decimal digit
IsNumericText(s) == Len(s) > 0 /\ \A i \in 1..Len(s) : IsDigit(CharAt(s, i))

\* C16: every statistic of an extracted result is a non-negative integer, and is
\* 0 when its element is missing or its text is not numeric.
C16_StatisticsNonNegative ==
    (RunAnswered /\ out.result.success) =>
        \A f \in {"totalChecks", "passed", "failed", "warnings"} :
            LET v == out.result.data.results.statistics[f]
                st == out.hist.document.stats
            IN  /\ ~v.nan
                /\ v.nan \/ v.val >= 0
                /\ (f \notin DOMAIN st \/ ~IsNumericText(st[f])) => (v.nan \/ v.val = 0)

\* C17: every violation of an extracted result has a severity among error,
\* warning and info, "error" when the severity element is missing; a missing type
\* is "unknown" and a missing message is the empty text.
C17_ViolationDefaults ==
    (RunAnswered /\ out.result.success) =>
        \A i \in DOMAIN out.result.data.results.violations :
            LET v == out.result.data.results.violations[i]
                el == out.hist.document.items[i]
            IN  /\ v.severity \in {"error", "warning", "info"}
                /\ "severity" \notin DOMAIN el => v.severity = "error"
                /\ "type" \notin DOMAIN el => v.type = "unknown"
                /\ "message" \notin DOMAIN el => v.message = ""

\* C18: when run verification triggers the run, the verification type and every
\* supplied option (timeout, depth, properties) have been entered into the page.
C18_OptionsEnteredBeforeTrigger ==
    \A c \in Calls :
        pc[c] \in {"rv_start", "rv_waitComplete", "rv_evaluate"} =>
            LET into == {hist[c].entered[i].into : i \in DOMAIN hist[c].entered} IN
            /\ "verificationType" \in into
            /\ \A f \in DOMAIN req[c].options : f \in into

\* the answer of the last step is the one of a natural-language call
NLAnswered == Answered /\ out.req.name = NLName /\ out.hist.executed

\* the token set of a text: the text in lower case, split at white space, as a
\* set of words
TokenSet(text) ==
    LET words == split(toLowerCase(text)) IN
    {words[i] : i \in DOMAIN words} \ {""}

\* the number of common tokens over the size of the larger token set
TokenSetScore(query, example) ==
    [num |-> Cardinality(TokenSet(query) \cap TokenSet(example)),
     den |-> Max(Cardinality(TokenSet(query)), Cardinality(TokenSet(example)))]

\* C19: the score Stage A computes for each corpus example is the size of the
\* intersection of the token sets of the query and of the example, divided by
\* the size of the larger token set, also for queries with repeated words or
\* several spaces between words.
C19_ScoreIsTokenSetOverlap ==
    NLAnswered =>
        \A i \in DOMAIN Examples :
            LET expected == TokenSetScore(out.req.query, Examples[i].query) IN
            out.hist.scores[i].num * expected.den = expected.num * out.hist.scores[i].den

\* C20: Stage A returns a match only when the matched example has the highest
\* token-set score and that score is above 0.5; when no example scores above 0.5
\* the answer is not a Stage A match.
C20_AcceptOnlyAboveHalf ==
    NLAnswered =>
        LET matched == "matchedExample" \in DOMAIN out.result.data
            score(i) == TokenSetScore(out.req.query, Examples[i].query)
        IN  /\ matched =>
                  \E i \in DOMAIN Examples :
                      /\ Examples[i].query = out.result.data.matchedExample
                      /\ 2 * score(i).num > score(i).den
                      /\ \A j \in DOMAIN Examples :
                            score(j).num * score(i).den <= score(i).num * score(j).den
            /\ (\A i \in DOMAIN Examples : 2 * score(i).num <= score(i).den) => ~matched

\* the examples whose Stage A score, as findBestExample computed it, is the
\* maximum over the corpus and above 0.5
BestScored(scores) ==
    {i \in DOMAIN scores :
        /\ Greater(scores[i], Half)
        /\ \A j \in DOMAIN scores : ~Greater(scores[j], scores[i])}

Least(S) == CHOOSE i \in S : \A j \in S : i <= j

\* C21: when several corpus examples attain the same maximum Stage A score (and
\* that score is acceptable), the answer is the match with the one of them that
\* comes first in corpus order: its text, its tool and its parameters.
C21_FirstOfTiedExamplesWins ==
    NLAnswered =>
        LET best == BestScored(out.hist.scores) IN
        Cardinality(best) > 1 =>
            /\ out.result.success
            /\ "matchedExample" \in DOMAIN out.result.data
            /\ out.result.data.matchedExample = Examples[Least(best)].query
            /\ out.result.data.suggestedTool = Examples[Least(best)].tool
            /\ out.result.data.suggestedParams = Examples[Least(best)].params

\* a query that two examples match equally well and better than the others has
\* been answered
C21_Witness ==
    /\ NLAnswered
    /\ Cardinality(BestScored(out.hist.scores)) > 1

\* the query of the demonstration and of the first corpus example
CpuDesignQuery == "I want to create a new formal verification project for my CPU design"

\* C22: a query that is the exact text of a corpus example scores 1.0 against
\* that example, and the answer is that example's interpretation, tool and
\* parameters with confidence "high"; the query "I want to create a new formal
\* verification project for my CPU design" yields the project tool with action
\* create and projectType formal.
C22_ExactCorpusTextMatchesItself ==
    NLAnswered =>
        \A i \in DOMAIN Examples :
            out.req.query = Examples[i].query =>
                /\ out.hist.scores[i].num = out.hist.scores[i].den
                /\ out.hist.scores[i].den > 0
                /\ out.result.success
                /\ out.result.data.matchedExample = Examples[i].query
                /\ out.result.data.interpretation = Examples[i].interpretation
                /\ out.result.data.suggestedTool = Examples[i].tool
                /\ out.result.data.suggestedParams = Examples[i].params
                /\ out.result.data.confidence = "high"
                /\ out.req.query = CpuDesignQuery =>
                      /\ out.result.data.suggestedTool = ProjectName
                      /\ out.result.data.suggestedParams.action = "create"
                      /\ out.result.data.suggestedParams.projectType = "formal"

\* the query of the demonstration has been answered with the project tool
C22_Witness ==
    /\ NLAnswered
    /\ out.req.query = CpuDesignQuery
    /\ out.result.data.suggestedTool = ProjectName

\* the categories of Stage B in the order project-creation, verification,
\* file-operation, navigation, results-query, help: whether the predicate of
\* each matches the query, and the interpretation its suggestion carries
CategoryMatches(query) ==
    <<isProjectCreation(query), isVerification(query), isFileOperation(query),
      isNavigation(query), isResultsQuery(query), isHelpQuery(query)>>

CategoryInterpretations ==
    <<"Create a new project", "Run verification", "Upload design files",
      "Navigate to platform section", "Get verification results", "Help requested">>

MatchedCategories(query) ==
    {i \in DOMAIN CategoryMatches(query) : CategoryMatches(query)[i]}

\* the answer is a Stage A match
StageAMatch == "matchedExample" \in DOMAIN out.result.data

\* C23: when Stage A has an acceptable match the answer is that match and no
\* category suggestion; otherwise, when some category predicate matches the
\* query, the answer is the suggestion of the first matching category in the
\* order project-creation, verification, file-operation, navigation,
\* results-query, help, also when later predicates match as well.
C23_FirstMatchingCategoryWins ==
    NLAnswered =>
        LET matching == MatchedCategories(toLowerCase(out.req.query))
            acceptable == BestScored(out.hist.scores) # {}
        IN  /\ acceptable => StageAMatch
            /\ (~acceptable /\ matching # {}) =>
                  /\ ~StageAMatch
                  /\ out.result.data.interpretation =
                         CategoryInterpretations[Least(matching)]

\* a query without Stage A match that matches the predicates of several
\* categories has been answered
C23_Witness ==
    /\ NLAnswered
    /\ ~StageAMatch
    /\ Cardinality(MatchedCategories(toLowerCase(out.req.query))) > 1

\* the answer suggests the upload tool with file type "verilog"
SuggestsVerilogUpload ==
    /\ out.result.success
    /\ out.result.data.interpretation = "Upload design files"
    /\ out.result.data.suggestedTool = UploadName
    /\ out.result.data.suggestedParams.fileType = "verilog"

\* the query of the answered call contains "upload" and "verilog" and has no
\* Stage A match
UploadVerilogQuery ==
    /\ NLAnswered
    /\ includes(toLowerCase(out.req.query), "upload")
    /\ includes(toLowerCase(out.req.query), "verilog")
    /\ ~StageAMatch

\* C24, as claimed: every query that contains "upload" and "verilog" and has no
\* Stage A match is classified as a file operation: the suggested tool is the
\* upload tool and the detected file type is "verilog".
C24_UploadVerilogIsFileOperation ==
    UploadVerilogQuery => SuggestsVerilogUpload

\* C24, amended: every query that contains "upload" and "verilog", has no Stage A
\* match and matches neither the project-creation predicate nor the
\* verification predicate is classified as a file operation: the suggested tool
\* is the upload tool and the detected file type is "verilog".
C24_UploadVerilogUnlessEarlierCategory ==
    (/\ UploadVerilogQuery
     /\ ~isProjectCreation(toLowerCase(out.req.query))
     /\ ~isVerification(toLowerCase(out.req.query)))
        => SuggestsVerilogUpload

\* such a query has been answered with the upload tool
C24_Witness ==
    /\ UploadVerilogQuery
    /\ ~isVerification(toLowerCase(out.req.query))
    /\ out.result.data.suggestedTool = UploadName

\* the groups of the list `groups` that have a keyword contained in query
MatchedGroups(groups, query) ==
    {i \in DOMAIN groups :
        \E k \in DOMAIN groups[i].keywords : includes(query, groups[i].keywords[k])}

\* subType is the type of the first group, in declared order, with a keyword
\* contained in query, and dflt when there is no such group
FirstGroupOrDefault(groups, query, dflt, subType) ==
    IF MatchedGroups(groups, query) = {}
    THEN subType = dflt
    ELSE subType = groups[Least(MatchedGroups(groups, query))].type

\* C25: in the suggestion of a matched Stage B category the sub-type is that of
\* the first keyword group, in declared order, with a keyword contained in the
\* query, and the fixed default when no group matches: "formal" for project
\* creation and verification, "verilog" for the file type, "home" for navigation.
C25_FirstKeywordGroupOrDefault ==
    (NLAnswered /\ ~StageAMatch) =>
        LET query == toLowerCase(out.req.query)
            data == out.result.data
        IN  /\ data.interpretation = "Create a new project" =>
                  FirstGroupOrDefault(ProjectTypes, query, "formal",
                                      data.suggestedParams.projectType)
            /\ data.interpretation = "Run verification" =>
                  FirstGroupOrDefault(VerificationTypes, query, "formal",
                                      data.suggestedParams.verificationType)
            /\ data.interpretation = "Upload design files" =>
                  FirstGroupOrDefault(FileTypes, query, "verilog",
                                      data.suggestedParams.fileType)
            /\ data.interpretation = "Navigate to platform section" =>
                  FirstGroupOrDefault(NavigationMap, query, "home",
                                      data.suggestedParams.action)

\* a file-operation query with keywords of several file-type groups has been
\* answered
C25_Witness ==
    /\ NLAnswered /\ ~StageAMatch
    /\ out.result.data.interpretation = "Upload design files"
    /\ Cardinality(MatchedGroups(FileTypes, toLowerCase(out.req.query))) > 1

\* the largest sample of corpus examples the fallback may carry
MaxFallbackExamples == 10

\* C26: when Stage A finds no match and no Stage B category predicate matches,
\* the answer is success=true with a fallback that carries the query as the
\* caller gave it (not lower-cased), generic guidance, and a sample of at most
\* 10 corpus examples, which are the first examples of the corpus in corpus
\* order.
C26_FallbackCarriesOriginalQuery ==
    (/\ NLAnswered
     /\ BestScored(out.hist.scores) = {}
     /\ MatchedCategories(toLowerCase(out.req.query)) = {}) =>
        LET data == out.result.data IN
        /\ out.result.success
        /\ "error" \notin DOMAIN out.result
        /\ data.interpretation = "Query understood but needs clarification"
        /\ data.originalQuery = out.req.query
        /\ Len(data.suggestions) > 0
        /\ Len(data.exampleQueries) <= MaxFallbackExamples
        /\ Len(data.exampleQueries) <= Len(Examples)
        /\ \A i \in DOMAIN data.exampleQueries :
              /\ data.exampleQueries[i].query = Examples[i].query
              /\ data.exampleQueries[i].action = Examples[i].interpretation

\* a query with upper-case letters that nothing matches has been answered with
\* the fallback
C26_Witness ==
    /\ NLAnswered
    /\ out.req.query # toLowerCase(out.req.query)
    /\ "originalQuery" \in DOMAIN out.result.data
    /\ Len(out.result.data.exampleQueries) = MaxFallbackExamples

\* C28: a resolve call is advisory and read-only: it is answered in the step
\* that receives it, with no login step and no page operation issued for it, it
\* starts or advances no other call (the suggested tool is not executed), and it
\* leaves the session state unchanged.  (The corpus is a constant of the model:
\* no code assigns to this.examples or to an example.)
C28_ResolveIsReadOnly ==
    /\ [](NLAnswered =>
            /\ ~out.hist.pageOps /\ ~out.hist.gotos
            /\ out.hist.entered = <<>> /\ out.hist.waits = <<>>
            /\ out.hist.caught = "none")
    /\ [][\A c \in Calls :
            (/\ pc[c] = "idle"
             /\ \/ req'[c] # None /\ req'[c].name = NLName
                \/ Answered' /\ out'.call = c /\ out'.req.name = NLName)
            => /\ Answered' /\ out'.call = c
               /\ pc'[c] = "idle" /\ req'[c] = None
               /\ \A d \in Calls \ {c} :
                     pc'[d] = pc[d] /\ req'[d] = req[d] /\ hist'[d] = hist[d]
               /\ UNCHANGED sessionVars
               /\ UNCHANGED serverVars]_vars

\* a resolve call that suggests the navigate tool has been answered while the
\* session has a page, has credentials and is not logged in, where a call of
\* the navigate tool itself would start a login
C28_Witness ==
    /\ NLAnswered
    /\ "suggestedTool" \in DOMAIN out.result.data
    /\ out.result.data.suggestedTool = NavigateName
    /\ page /\ envCreds /\ ~isLoggedIn

\* a valid upload call whose local path does not resolve to an accessible file
\* has been answered
MissingSourceAnswered ==
    /\ Answered
    /\ out.req.name = UploadName /\ out.req.issues = <<>>
    /\ ~out.req.fileExists

\* C29: an upload call whose local path does not resolve to an existing readable
\* file returns success=false with the source-missing error, and no page
\* navigation and no other page operation has been issued for the call before
\* that failure is returned.
C29_MissingSourceFailsBeforePage ==
    MissingSourceAnswered =>
        /\ IsToolResult(out.result)
        /\ ~out.result.success
        /\ out.result.error = "File upload failed: " \o SourceMissing.message
        /\ ~out.hist.gotos
        /\ ~out.hist.pageOps

\* the handler of the signal k has finished its close attempt in this step:
\* browser.close() has resolved or rejected
CloseAttemptFinishes(k) ==
    sigPc[k] = "closing" /\ sigPc'[k] \in {"exited", "rejected"}

Flagged(response) == "isError" \in DOMAIN response /\ response.isError

\* C31: the transport response to a tool call carries the error text with the
\* isError flag set exactly when the ToolResult has success=false, and the
\* serialized data with no error flag exactly when it has success=true.
C31_ResponseMirrorsResult ==
    (Answered /\ out.req.name \in ToolNames /\ IsToolResult(out.result)) =>
        /\ out.response.kind = "content"
        /\ Flagged(out.response) <=> ~out.result.success
        /\ ~out.result.success => out.response.text = "Error: " \o out.result.error
        /\ out.result.success =>
              /\ "isError" \notin DOMAIN out.response
              /\ out.response.text = JSONStringify(out.result.data)

\* a call that navigated the page has been answered with its serialized data
C31_Witness ==
    /\ Answered /\ IsToolResult(out.result) /\ out.result.success
    /\ out.hist.gotos
    /\ out.response.text = JSONStringify(out.result.data)

\* the help query of the demonstration
HelpDemoQuery == "Help me get started with power analysis"

\* C32: the query "Help me get started with power analysis" is resolved as a
\* help request: the answer is the help response (interpretation 'Help
\* requested') and suggests neither the project tool nor run verification.
C32_DemoHelpQueryIsHelp ==
    (NLAnswered /\ out.req.query = HelpDemoQuery) =>
        /\ out.result.success
        /\ out.result.data.interpretation = "Help requested"
        /\ "suggestedTool" \notin DOMAIN out.result.data

\* the phase of a run verification call an awaited operation belongs to:
\* 1 authenticate, 2 navigate to the verify view, 3 configure, 4 trigger and
\* observe the running indicator, 5 observe the complete indicator, 6 extract
RunPhase(l) ==
    CASE l \in LoginLabels -> 1
      [] l = "rv_goto" -> 2
      [] l \in {"rv_select", "rv_type_timeout", "rv_type_depth"} -> 3
      [] l = "rv_start" -> 4
      [] l = "rv_waitComplete" -> 5
      [] OTHER -> 6

\* C33: in every run verification call the steps occur in the order
\* authenticate, navigate to the verify view, configure, trigger and observe the
\* running indicator, observe the complete indicator, extract: a call starts
\* with the authentication or, on an authenticated session, with the
\* navigation, no phase is skipped or repeated out of order, the session is
\* authenticated when the navigation starts, and the extraction starts only in
\* the step in which the call's own wait for the complete indicator resolved.
C33_RunStepOrder ==
    /\ [](RunAnswered =>
            (out.hist.document # None =>
                /\ out.hist.gotos
                /\ Len(out.hist.entered) >= 1
                /\ Len(out.hist.waits) = 2))
    /\ [][\A c \in Calls :
            (/\ pc'[c] \in LoginLabels \cup BodyLabels
             /\ pc'[c] # pc[c]
             /\ req'[c].name = RunName) =>
                /\ pc[c] = "idle" => RunPhase(pc'[c]) <= 2
                /\ pc[c] # "idle" =>
                      /\ RunPhase(pc[c]) <= RunPhase(pc'[c])
                      /\ RunPhase(pc'[c]) <= RunPhase(pc[c]) + 1
                /\ pc'[c] = "rv_goto" => isLoggedIn'
                /\ pc'[c] = "rv_start" => Len(hist'[c].entered) >= 1
                /\ pc'[c] = "rv_evaluate" =>
                      /\ pc[c] = "rv_waitComplete"
                      /\ Len(hist'[c].waits) = 2]_vars

\* a run that logged in, typed a timeout and a depth into the form and waited
\* for both indicators has been answered with the extracted results
C33_Witness ==
    /\ RunAnswered /\ out.result.success
    /\ out.hist.document # None
    /\ Len(out.hist.entered) = 3 /\ Len(out.hist.waits) = 2

\* the call c is in flight: validateAndExecute is suspended at an await
InFlight(c) == pc[c] \in LoginLabels \cup BodyLabels

\* C34, as claimed: every tool invocation eventually returns a result, also when
\* the session is closed while the operation is in flight.
C34_EveryCallReturns ==
    \A c \in Calls : InFlight(c) ~> (pc[c] = "idle")

\* C34, amended: every tool invocation eventually returns a result unless the
\* process exits first (on a termination signal, after the close of the
\* session): no call stays suspended forever in a running process.
C34_EveryCallReturnsOrProcessExits ==
    \A c \in Calls : InFlight(c) ~> (pc[c] = "idle" \/ ~alive)

\* a call that was in flight when a termination signal arrived, and whose page
\* operation then failed because the session could not be closed and reopened,
\* has returned its failure while the process goes on
C34_Witness ==
    /\ alive
    /\ \E k \in Sigs : sigPc[k] = "rejected"
    /\ Answered /\ IsToolResult(out.result)
    /\ out.hist.pageOps

\* C35: in every reachable state a session that counts as logged in has a page
\* handle: the flag is set only by a login that found the page, and close()
\* clears it together with the handle, also when a login is in flight.
C35_LoggedInHasPage == isLoggedIn => page

\* the session counts as logged in while the close of a termination signal is
\* pending and another call is still inside login
C35_Witness ==
    /\ isLoggedIn /\ page
    /\ \E k \in Sigs : sigPc[k] = "closing"
    /\ \E c \in Calls : pc[c] \in LoginLabels

LoginFailure == Fail("Failed to login to OnlineEDA. Please check credentials.")

\* the position of an awaited operation inside BrowserManager.login
LoginPhase(l) ==
    CASE l = "login_check" -> 1
      [] l = "login_waitForSelector" -> 2
      [] l = "login_type_user" -> 3
      [] l = "login_type_pass" -> 4
      [] l = "login_submit" -> 5
      [] l = "login_verify" -> 6
      [] OTHER -> 0

\* C36: one ensureLoggedIn call makes at most one login attempt: a call enters
\* login only at its start and then only moves forward through login's
\* operations, never back to the first one; the step in which a call's login
\* fails does not set isLoggedIn, and the call is answered with success=false
\* and the login-failure message, raised to validateAndExecute, without a
\* page.goto of its own.
C36_OneLoginAttempt ==
    /\ []((Answered /\ out.result = LoginFailure) =>
            /\ ~out.result.success
            /\ out.hist.caught = "validateAndExecute"
            /\ out.hist.pageOps
            /\ ~out.hist.gotos
            /\ out.response.isError)
    /\ [][/\ \A c \in Calls :
                (pc'[c] \in LoginLabels /\ pc'[c] # pc[c]) =>
                    \/ pc[c] = "idle" /\ pc'[c] = "login_check"
                    \/ /\ pc[c] \in LoginLabels
                       /\ LoginPhase(pc'[c]) = LoginPhase(pc[c]) + 1
          /\ (out' # None /\ out'.result = LoginFailure) =>
                (isLoggedIn' => isLoggedIn)]_vars

\* a call with credentials in the environment got as far as the login form,
\* its login failed, and it has been answered with the login failure while the
\* session is not logged in
C36_Witness ==
    /\ Answered /\ out.result = LoginFailure
    /\ envCreds /\ page /\ ~isLoggedIn

\* C37: if the browser initialization failed at startup the server serves all the
\* same, every call of a page tool that reaches execute is answered with
\* success=false and 'Browser not initialized', and no call launches a browser:
\* the one launch is that of start().
C37_FailedInitFailsEveryPageCall ==
    /\ launches <= 1
    /\ (initFailed /\ Answered /\ out.req.name \in PageToolNames /\ out.hist.executed) =>
          out.result = Fail("Browser not initialized")

\* the project call r lacks an argument its action needs
LacksRequiredField(r) ==
    /\ r.name = ProjectName
    /\ \/ r.action = "create" /\ ~(r.projectName # "" /\ r.projectType # "")
       \/ r.action \in {"open", "delete"} /\ r.projectId = ""

C39_ValidQueryAlwaysSucceeds ==
    (Answered /\ out.req.name = NLName /\ out.req.issues = <<>>) =>
        /\ IsToolResult(out.result)
        /\ out.result.success
        /\ "error" \notin DOMAIN out.result
        /\ out.hist.caught = "none"
        /\ "isError" \notin DOMAIN out.response

\* a results query sent with a current project in its context was answered with
\* the suggestion to go to that project's results
C39_Witness ==
    /\ Answered /\ out.req.name = NLName /\ out.req.currentProject = "42"
    /\ out.result.success
    /\ out.result.data.interpretation = "Get verification results"
    /\ out.result.data.suggestedAction = "Navigate to project 42 results page"

\* C40: a read of arcas://projects whose list operation failed is answered with
\* an error; the failure is never answered as a read with contents.
C40_FailedListReadReportsError ==
    (Answered /\ out.req.uri = "arcas://projects"
        /\ IsToolResult(out.result) /\ ~out.result.success) =>
            out.response.kind = "McpError"

====
